---------------------------- MODULE Spec2Model ----------------------------
(***************************************************************************)
(* Module-tree construction and code emission of protocrate                *)
(* (src/src/module.rs: Module::build, Module::path_to_mod,                 *)
(* Module::codegen, escape_reserved_keywords).                             *)
(*                                                                         *)
(* A Rust string is a sequence of one-character strings, so that           *)
(* replace("r#", ""), split('.'), replace('.', "_"), trim() and the byte   *)
(* order used by sort() are computed character by character.               *)
(* The HashMap<String, Module> tree is the prefix-closed function from a   *)
(* node's path of keys to its fields priv_mod and use_mod: the children of *)
(* the node at path p are the nodes at the paths Append(p, key).           *)
(* The directory src_path is dirs (the directories below it, as paths of   *)
(* component names) and files (file location -> the content it holds,      *)
(* named by the flat file the content came from).                          *)
(***************************************************************************)
EXTENDS Naturals, Sequences, FiniteSets, TLC

VARIABLES pc, src_files, ignore_files, dirs, files, file_paths, i, root, out

vars == <<pc, src_files, ignore_files, dirs, files, file_paths, i, root, out>>

(* ------------------------------ bounds --------------------------------- *)

\* the largest number of flat files in src_path when build starts
MaxFiles == 3

(* ------------------------------ strings -------------------------------- *)

\* the characters of the model in increasing byte order
Alphabet == <<" ", "#", ".", "0", "1", "2", "3", "4", "5", "6", "7", "8", "9", "_",
              "a", "b", "c", "d", "e", "f", "g", "h", "i", "j", "k", "l", "m",
              "n", "o", "p", "q", "r", "s", "t", "u", "v", "w", "x", "y", "z">>

Chars == {Alphabet[k] : k \in 1..Len(Alphabet)}

\* the rank of a character's byte
Byte[c \in Chars] ==
    CHOOSE k \in 1..Len(Alphabet) : Alphabet[k] = c

\* a < b in the order of str::cmp (lexicographic over bytes)
StrLess(a, b) ==
    \E k \in 1..Len(b) :
        /\ \A j \in 1..(k - 1) : j <= Len(a) /\ a[j] = b[j]
        /\ \/ k = Len(a) + 1
           \/ k <= Len(a) /\ Byte[a[k]] < Byte[b[k]]

RECURSIVE InsertSorted(_, _)
InsertSorted(x, s) ==
    IF s = <<>> THEN <<x>>
    ELSE IF StrLess(x, Head(s)) THEN <<x>> \o s
    ELSE <<Head(s)>> \o InsertSorted(x, Tail(s))

\* slice::sort / sort_unstable of strings: the ascending arrangement
RECURSIVE SortStrings(_)
SortStrings(s) ==
    IF s = <<>> THEN <<>> ELSE InsertSorted(Head(s), SortStrings(Tail(s)))

\* a collection's elements in some iteration order (HashMap::iter)
RECURSIVE IterOrder(_)
IterOrder(S) ==
    IF S = {} THEN <<>>
    ELSE LET x == CHOOSE y \in S : TRUE IN <<x>> \o IterOrder(S \ {x})

\* every order in which a listing can enumerate the set S
Enumerations(S) ==
    {s \in [1..Cardinality(S) -> S] : \A a, b \in 1..Cardinality(S) : a # b => s[a] # s[b]}

\* str::replace("r#", ""): every non-overlapping match, left to right, removed
RECURSIVE StripRawMarker(_)
StripRawMarker(s) ==
    IF Len(s) < 2 THEN s
    ELSE IF s[1] = "r" /\ s[2] = "#" THEN StripRawMarker(SubSeq(s, 3, Len(s)))
    ELSE <<s[1]>> \o StripRawMarker(Tail(s))

\* str::split('.'): the pieces between the dots; one (empty) piece for ""
RECURSIVE Split(_)
Split(s) ==
    IF \A k \in 1..Len(s) : s[k] # "." THEN <<s>>
    ELSE LET d == CHOOSE k \in 1..Len(s) : s[k] = "." /\ \A j \in 1..(k - 1) : s[j] # "."
         IN <<SubSeq(s, 1, d - 1)>> \o Split(SubSeq(s, d + 1, Len(s)))

\* str::replace('.', "_")
DotsToUnderscores(s) == [k \in 1..Len(s) |-> IF s[k] = "." THEN "_" ELSE s[k]]

\* str::trim(): leading and trailing whitespace removed
RECURSIVE Trim(_)
Trim(s) ==
    IF s = <<>> THEN s
    ELSE IF Head(s) = " " THEN Trim(Tail(s))
    ELSE IF s[Len(s)] = " " THEN Trim(SubSeq(s, 1, Len(s) - 1))
    ELSE s

\* Path::file_stem: the file name up to its last dot; the whole name when it
\* has no dot, or only a leading one
FileStem(name) ==
    LET dots == {k \in 1..Len(name) : name[k] = "."}
    IN IF dots = {} \/ dots = {1} THEN name
       ELSE LET last == CHOOSE k \in dots : \A j \in dots : j <= k
            IN SubSeq(name, 1, last - 1)

(* ------------------------- reserved keywords --------------------------- *)

\* the keywords escaped with the raw identifier prefix
RawKeywords ==
    { <<"a","s">>, <<"b","r","e","a","k">>, <<"c","o","n","s","t">>, <<"c","o","n","t","i","n","u","e">>, <<"e","l","s","e">>, <<"e","n","u","m">>, <<"f","a","l","s","e">>,
      <<"f","n">>, <<"f","o","r">>, <<"i","f">>, <<"i","m","p","l">>, <<"i","n">>, <<"l","e","t">>, <<"l","o","o","p">>, <<"m","a","t","c","h">>,
      <<"m","o","d">>, <<"m","o","v","e">>, <<"m","u","t">>, <<"p","u","b">>, <<"r","e","f">>, <<"r","e","t","u","r","n">>, <<"s","t","a","t","i","c">>,
      <<"s","t","r","u","c","t">>, <<"t","r","a","i","t">>, <<"t","r","u","e">>, <<"t","y","p","e">>, <<"u","n","s","a","f","e">>, <<"u","s","e">>, <<"w","h","e","r","e">>,
      <<"w","h","i","l","e">>, <<"d","y","n">>, <<"a","b","s","t","r","a","c","t">>, <<"b","e","c","o","m","e">>, <<"b","o","x">>, <<"d","o">>, <<"f","i","n","a","l">>,
      <<"m","a","c","r","o">>, <<"o","v","e","r","r","i","d","e">>, <<"p","r","i","v">>, <<"t","y","p","e","o","f">>, <<"u","n","s","i","z","e","d">>, <<"v","i","r","t","u","a","l">>,
      <<"y","i","e","l","d">>, <<"a","s","y","n","c">>, <<"a","w","a","i","t">>, <<"t","r","y">> }

\* the keywords that cannot be raw identifiers and get a trailing underscore
SuffixKeywords == { <<"s","e","l","f">>, <<"s","u","p","e","r">>, <<"e","x","t","e","r","n">>, <<"c","r","a","t","e">> }

\* the match without its "self" | "super" | "extern" | "crate" arm
EscapeWithoutSuffixArm(ident) ==
    IF ident \in RawKeywords THEN <<"r","#">> \o ident ELSE ident

escape_reserved_keywords(ident) ==
    IF ident \in RawKeywords THEN <<"r","#">> \o ident
    ELSE IF ident \in SuffixKeywords THEN ident \o <<"_">>
    ELSE ident

(* ------------------------------ the tree ------------------------------- *)

\* Module::default(): no private modules, no uses (and no children)
ModuleDefault == [priv_mod |-> <<>>, use_mod |-> <<>>]

\* the keys of child_mod of the node at path p
ChildKeys(t, p) == {q[Len(q)] : q \in {r \in DOMAIN t : Len(r) = Len(p) + 1 /\ SubSeq(r, 1, Len(p)) = p}}

RECURSIVE path_to_mod(_, _, _, _)
path_to_mod(t, here, mod_name, path) ==
    IF path # <<>>
    THEN LET child == Append(here, escape_reserved_keywords(Head(path)))
             entered == IF child \in DOMAIN t THEN t ELSE (child :> ModuleDefault) @@ t
             below == path_to_mod(entered, child, mod_name, Tail(path))
         IN IF Len(path) = 1
            THEN [below EXCEPT ![here].priv_mod =
                                   Append(@, Trim(escape_reserved_keywords(mod_name)))]
            ELSE below
    ELSE [t EXCEPT ![here].use_mod = Append(@, Trim(escape_reserved_keywords(mod_name)))]

(* ---------------------------- the file names --------------------------- *)

\* file_stem ... .replace("r#", "")
file_stem(name) == StripRawMarker(FileStem(name))

mod_path(name) == Split(file_stem(name))

internal_mod_name(name) == DotsToUnderscores(file_stem(name)) \o <<"_","i","n","t","e","r","n","a","l">>

new_file_name(name) == internal_mod_name(name) \o <<".","r","s">>

\* PathBuf::join of a directory below src_path with one more component
Join(dir, comp) == IF comp = <<>> THEN dir ELSE Append(dir, comp)

RECURSIVE JoinAll(_, _)
JoinAll(dir, comps) ==
    IF comps = <<>> THEN dir ELSE JoinAll(Join(dir, Head(comps)), Tail(comps))

\* new_dir: the parent joined with every segment of mod_path but the last
new_dir(name) == JoinAll(<<>>, SubSeq(mod_path(name), 1, Len(mod_path(name)) - 1))

Prefixes(dir) == {SubSeq(dir, 1, k) : k \in 0..Len(dir)}

At(dir, name) == [dir |-> dir, name |-> name]

\* create_dir_all succeeds unless a component of the path is a file
CanCreateDirAll(fs, dir) ==
    \A k \in 1..Len(dir) : At(SubSeq(dir, 1, k - 1), dir[k]) \notin DOMAIN fs

\* fs::rename succeeds when the source exists and the target is no directory
CanRename(ds, fs, from, to) == from \in DOMAIN fs /\ Join(to.dir, to.name) \notin ds

\* fs::rename: the target holds the source's content, replacing what was there
Rename(fs, from, to) ==
    IF from = to THEN fs
    ELSE [p \in (DOMAIN fs \ {from}) \cup {to} |-> IF p = to THEN fs[from] ELSE fs[p]]

\* the listing left as read_dir enumerated it
SortPathsOmitted(paths) == paths

\* file_paths.sort()
SortPaths(paths) == SortStrings(paths)

\* filter_map: the listing without the ignored files
RECURSIVE WithoutIgnored(_, _)
WithoutIgnored(listing, ignored) ==
    IF listing = <<>> THEN <<>>
    ELSE IF Head(listing) \in ignored THEN WithoutIgnored(Tail(listing), ignored)
    ELSE <<Head(listing)>> \o WithoutIgnored(Tail(listing), ignored)

\* the file_paths build iterates over, from what read_dir listed
CollectFilePaths(listing, ignored) == SortPaths(WithoutIgnored(listing, ignored))

\* the body of the for loop on st = [dirs, files, root], when no call fails
LoopBody(st, path) ==
    [dirs |-> st.dirs \cup Prefixes(new_dir(path)),
     files |-> Rename(st.files, At(<<>>, path), At(new_dir(path), new_file_name(path))),
     root |-> path_to_mod(st.root, <<>>, internal_mod_name(path), mod_path(path))]

RECURSIVE Loop(_, _)
Loop(st, paths) ==
    IF paths = <<>> THEN st ELSE Loop(LoopBody(st, Head(paths)), Tail(paths))

\* src_path as build finds it, holding the flat files named in S
FlatDir(S) ==
    [dirs |-> {<<>>},
     files |-> [p \in {At(<<>>, n) : n \in S} |-> p.name],
     root |-> (<<>> :> ModuleDefault)]

(* ------------------------------ codegen -------------------------------- *)

Item(kind, scope, name) == [kind |-> kind, scope |-> scope, name |-> name]

RECURSIVE Reverse(_)
Reverse(s) == IF s = <<>> THEN <<>> ELSE Append(Reverse(Tail(s)), Head(s))

\* sorted_children with the comparison turned round (b.0.cmp(a.0))
SortedChildrenDescending(t, p) == Reverse(SortStrings(IterOrder(ChildKeys(t, p))))

sorted_children(t, p) == SortStrings(IterOrder(ChildKeys(t, p)))

sorted_priv_modules(t, p) == SortStrings(t[p].priv_mod)

sorted_use(t, p) == SortStrings(t[p].use_mod)

\* The calls Module::codegen makes on its Scope, in order: raw("mod X;") is
\* the item "mod", new_module(X).vis("pub") the item "pub mod" followed by the
\* items of the child's scope, import("super::X", "*").vis("pub") the item
\* "pub use". scope is the path of the module block the call is made in.
RECURSIVE codegen(_, _)
codegen(t, p) ==
    LET RECURSIVE children(_)
        children(keys) ==
            IF keys = <<>> THEN <<>>
            ELSE <<Item("pub mod", p, Head(keys))>>
                 \o codegen(t, Append(p, Head(keys)))
                 \o children(Tail(keys))
    IN [k \in 1..Len(sorted_priv_modules(t, p)) |-> Item("mod", p, sorted_priv_modules(t, p)[k])]
       \o children(sorted_children(t, p))
       \o [k \in 1..Len(sorted_use(t, p)) |-> Item("pub use", p, sorted_use(t, p)[k])]

(* ------------------------------ the inputs ----------------------------- *)

\* the flat file names src_path may hold when build starts
FileNames ==
    { <<"f","i","r","s","t",".","r","s">>, <<"f","o","o",".","r","s">>, <<"f","o","o",".","v","1",".","r","s">>, <<"f","o","o",".","v","1",".","o","n","e",".","r","s">>, <<"f","o","o",".","v","1",".","t","w","o",".","r","s">>,
      <<"f","o","o","_","v","1",".","r","s">>, <<"f","o","o","_","i","n","t","e","r","n","a","l",".","r","s">>, <<"r","#","f","o","o",".","r","s">>, <<"r","#",".","r","s">>,
      <<"t","y","p","e",".","r","s">>, <<"s",".","r","s">>, <<"s","e","l","f",".","r","s">>, <<"s","e","l","f","_",".","r","s">>, <<"l","i","b",".","r","s">> }

lib_rs == <<"l","i","b",".","r","s">>

(* ------------------------------ the actions ---------------------------- *)

Init ==
    /\ pc = "start"
    /\ src_files \in {S \in SUBSET FileNames : Cardinality(S) <= MaxFiles}
    /\ ignore_files \in {{}, {lib_rs}}
    /\ dirs = FlatDir(src_files).dirs
    /\ files = FlatDir(src_files).files
    /\ file_paths = <<>>
    /\ i = 0
    /\ root = FlatDir(src_files).root
    /\ out = <<>>

\* the names fs::read_dir(src_path) lists
DirEntries == {p.name : p \in {q \in DOMAIN files : q.dir = <<>>}}
                  \cup {d[1] : d \in {e \in dirs : Len(e) = 1}}

\* let mut file_paths = read_dir(..)...collect(); file_paths.sort();
ReadDir ==
    /\ pc = "start"
    /\ \E listing \in Enumerations(DirEntries) :
           file_paths' = CollectFilePaths(listing, ignore_files)
    /\ pc' = "loop"
    /\ UNCHANGED <<src_files, ignore_files, dirs, files, i, root, out>>

\* fs::read_dir(src_path).context("read src dir")?
ReadDirFail ==
    /\ pc = "start"
    /\ pc' = "error"
    /\ UNCHANGED <<src_files, ignore_files, dirs, files, file_paths, i, root, out>>

\* one iteration of the for loop: create_dir_all, rename, path_to_mod
BuildStep ==
    /\ pc = "loop"
    /\ i < Len(file_paths)
    /\ LET path == file_paths[i + 1]
           from == At(<<>>, path)
           to == At(new_dir(path), new_file_name(path))
       IN /\ CanCreateDirAll(files, new_dir(path))
          /\ CanRename(dirs \cup Prefixes(new_dir(path)), files, from, to)
          /\ dirs' = LoopBody([dirs |-> dirs, files |-> files, root |-> root], path).dirs
          /\ files' = LoopBody([dirs |-> dirs, files |-> files, root |-> root], path).files
          /\ root' = LoopBody([dirs |-> dirs, files |-> files, root |-> root], path).root
    /\ i' = i + 1
    /\ UNCHANGED <<pc, src_files, ignore_files, file_paths, out>>

\* create_dir_all(&new_dir).context(..)? : the directories made before the
\* failure stay
CreateDirFail ==
    /\ pc = "loop"
    /\ i < Len(file_paths)
    /\ \E made \in Prefixes(new_dir(file_paths[i + 1])) :
           /\ made # new_dir(file_paths[i + 1]) \/ made \in dirs
           /\ dirs' = dirs \cup Prefixes(made)
    /\ pc' = "error"
    /\ UNCHANGED <<src_files, ignore_files, files, file_paths, i, root, out>>

\* the failed rename swallowed (.ok() for ?): the loop goes on with the next
\* file as if this one had been moved
RenameFailIgnored ==
    /\ pc = "loop"
    /\ i < Len(file_paths)
    /\ CanCreateDirAll(files, new_dir(file_paths[i + 1]))
    /\ dirs' = dirs \cup Prefixes(new_dir(file_paths[i + 1]))
    /\ root' = path_to_mod(root, <<>>, internal_mod_name(file_paths[i + 1]),
                           mod_path(file_paths[i + 1]))
    /\ i' = i + 1
    /\ UNCHANGED <<pc, src_files, ignore_files, files, file_paths, out>>

\* rename(&path, ..).context(..)? : the directory is there, the file not moved
RenameFail ==
    /\ pc = "loop"
    /\ i < Len(file_paths)
    /\ CanCreateDirAll(files, new_dir(file_paths[i + 1]))
    /\ dirs' = dirs \cup Prefixes(new_dir(file_paths[i + 1]))
    /\ pc' = "error"
    /\ UNCHANGED <<src_files, ignore_files, files, file_paths, i, root, out>>

\* Ok(root)
BuildReturn ==
    /\ pc = "loop"
    /\ i = Len(file_paths)
    /\ pc' = "built"
    /\ UNCHANGED <<src_files, ignore_files, dirs, files, file_paths, i, root, out>>

\* module.codegen(&mut scope) on the tree build returned
Codegen ==
    /\ pc = "built"
    /\ out' = codegen(root, <<>>)
    /\ pc' = "done"
    /\ UNCHANGED <<src_files, ignore_files, dirs, files, file_paths, i, root>>

Next ==
    \/ ReadDir
    \/ ReadDirFail
    \/ BuildStep
    \/ CreateDirFail
    \/ RenameFail
    \/ BuildReturn
    \/ Codegen

Spec == Init /\ [][Next]_vars

(* ------------------------------- claims ------------------------------- *)

\* build has returned Ok(root)
Built == pc \in {"built", "done"}

\* the files the for loop has handled so far
Handled == {file_paths[k] : k \in 1..i}

\* the non-ignored input files
Inputs == src_files \ ignore_files

Count(s, x) == Cardinality({k \in 1..Len(s) : s[k] = x})

Elems(s) == {s[k] : k \in 1..Len(s)}

\* the keys of the nodes along the segments segs
EscapedPath(segs) == [k \in 1..Len(segs) |-> escape_reserved_keywords(segs[k])]

\* the node of the first d segments of file f
NodeOf(f, d) == EscapedPath(SubSeq(mod_path(f), 1, d))

\* the name path_to_mod pushes for file f
UnitOf(f) == Trim(escape_reserved_keywords(internal_mod_name(f)))

\* C1: for a non-empty set of files, the emitted text and the final file
\* layout are the same for every order in which read_dir can list the files.
C1_OrderIndependent ==
    pc = "done" /\ src_files # {} =>
        \A listing \in Enumerations(src_files) :
            LET r == Loop(FlatDir(src_files), CollectFilePaths(listing, ignore_files))
            IN /\ out = codegen(r.root, <<>>)
               /\ files = r.files
               /\ dirs = r.dirs

\* text has been emitted for several files that some listing gives unsorted
C1_Witness ==
    /\ pc = "done"
    /\ Len(file_paths) >= 2
    /\ Len(out) > Len(file_paths)
    /\ \E listing \in Enumerations(src_files) :
           WithoutIgnored(listing, ignore_files) # file_paths

\* C2: after build, every input file with k segments has its chain of k
\* nested nodes, and its internal-unit name occurs exactly once in priv_mod
\* of the node at depth k-1, exactly once in use_mod of the node at depth k,
\* and in no other node.
C2_UnitPlacedOnce ==
    Built =>
        \A f \in Inputs :
            LET k == Len(mod_path(f))
            IN /\ \A d \in 0..k : NodeOf(f, d) \in DOMAIN root
               /\ \A p \in DOMAIN root :
                      /\ Count(root[p].priv_mod, internal_mod_name(f))
                             = (IF p = NodeOf(f, k - 1) THEN 1 ELSE 0)
                      /\ Count(root[p].use_mod, internal_mod_name(f))
                             = (IF p = NodeOf(f, k) THEN 1 ELSE 0)

IsPrefix(s, t) == Len(s) <= Len(t) /\ SubSeq(t, 1, Len(s)) = s

\* every node is still there with the entries it held, in their places
FrameKept ==
    \A p \in DOMAIN root :
        /\ p \in DOMAIN root'
        /\ IsPrefix(root[p].priv_mod, root'[p].priv_mod)
        /\ IsPrefix(root[p].use_mod, root'[p].use_mod)

\* f and g have distinct full paths under one parent path
Siblings(f, g) ==
    /\ mod_path(f) # mod_path(g)
    /\ Len(mod_path(f)) = Len(mod_path(g))
    /\ SubSeq(mod_path(f), 1, Len(mod_path(f)) - 1)
           = SubSeq(mod_path(g), 1, Len(mod_path(g)) - 1)

\* in the tree t, the siblings among the files of H are both declared at the
\* common parent, and the leaf of each uses its own unit only
SiblingsApart(t, H) ==
    \A f, g \in H :
        Siblings(f, g) =>
            LET k == Len(mod_path(f))
            IN /\ {internal_mod_name(f), internal_mod_name(g)}
                      \subseteq Elems(t[NodeOf(f, k - 1)].priv_mod)
               /\ Elems(t[NodeOf(f, k)].use_mod) = {internal_mod_name(f)}

\* C3: inserting a file keeps the existing nodes and every entry of the
\* earlier files, and files with distinct full paths under a common parent
\* are declared at that parent and used each in its own leaf only.
C3_InsertFrame ==
    [][pc = "loop" /\ i' = i + 1 =>
           /\ FrameKept
           /\ SiblingsApart(root', Handled \cup {file_paths[i + 1]})]_vars

Reserved == RawKeywords \cup SuffixKeywords

\* the reserved word seg as the claim has it emitted
Escaped(seg) == IF seg \in SuffixKeywords THEN seg \o <<"_">> ELSE <<"r","#">> \o seg

\* C4: no module block and no unit named in the emitted text is a bare
\* reserved word; a segment that is one is emitted with the r# prefix or,
\* for self, super, extern and crate, with a trailing underscore.
C4_NoBareReservedWord ==
    pc = "done" =>
        /\ \A k \in 1..Len(out) : out[k].name \notin Reserved
        /\ \A f \in Inputs :
               \A d \in 1..Len(mod_path(f)) :
                   mod_path(f)[d] \in Reserved =>
                       \E k \in 1..Len(out) :
                           /\ out[k].kind = "pub mod"
                           /\ Len(out[k].scope) = d - 1
                           /\ out[k].name = Escaped(mod_path(f)[d])

\* text has been emitted for a file with a segment of each kind of keyword
C4_Witness ==
    /\ pc = "done"
    /\ \E f, g \in Inputs :
           /\ mod_path(f)[1] \in RawKeywords
           /\ mod_path(g)[1] \in SuffixKeywords
           /\ \E k \in 1..Len(out) : out[k].name = <<"r","#">> \o mod_path(f)[1]
           /\ \E k \in 1..Len(out) : out[k].name = mod_path(g)[1] \o <<"_">>

\* two input files have, under one node, distinct segments with one escape
EscapeCollision ==
    \E f, g \in Inputs :
        \E d \in 1..Len(mod_path(f)) :
            /\ d <= Len(mod_path(g))
            /\ NodeOf(f, d - 1) = NodeOf(g, d - 1)
            /\ mod_path(f)[d] # mod_path(g)[d]
            /\ escape_reserved_keywords(mod_path(f)[d])
                   = escape_reserved_keywords(mod_path(g)[d])

\* C5: when two distinct segments at one tree level escape to the same
\* identifier, build returns an error and no tree.
C5_CollisionIsError == EscapeCollision => ~Built

NoDuplicates(s) == \A a, b \in 1..Len(s) : a # b => s[a] # s[b]

\* C6: priv_mod and use_mod never hold a name twice, and the emitted text
\* never declares or uses the same unit twice in one scope.
C6_UnitsAreSets ==
    /\ \A p \in DOMAIN root :
           NoDuplicates(root[p].priv_mod) /\ NoDuplicates(root[p].use_mod)
    /\ NoDuplicates(out)

\* C7: at every node the names in priv_mod are disjoint from the keys of
\* child_mod.
C7_UnitsApartFromChildren ==
    \A p \in DOMAIN root : Elems(root[p].priv_mod) \cap ChildKeys(root, p) = {}

\* C8: a file whose stem is empty, or empty once the r# markers are
\* stripped, makes build fail: it stays where it was, and no node ever has
\* the empty string as its key.
C8_EmptyStemIsError ==
    /\ \A p \in DOMAIN root : <<>> \notin Elems(p)
    /\ \A f \in Inputs :
           file_stem(f) = <<>> =>
               /\ ~Built
               /\ At(<<>>, f) \in DOMAIN files
               /\ files[At(<<>>, f)] = f

\* the names of the items of one kind emitted in one scope, in order
Names(kind, scope) ==
    LET its == SelectSeq(out, LAMBDA it : it.kind = kind /\ it.scope = scope)
    IN [k \in 1..Len(its) |-> its[k].name]

Ascending(s) == \A a, b \in 1..Len(s) : a < b => ~StrLess(s[b], s[a])

\* where the block of key is emitted in scope
BlockAt(scope, key) == CHOOSE k \in 1..Len(out) : out[k] = Item("pub mod", scope, key)

\* C9 as stated: at every node the blocks are emitted in the order of the
\* raw segments they come from, the declarations and uses in the order of
\* their names.
C9_RawOrder ==
    pc = "done" =>
        /\ \A p \in DOMAIN root :
               Ascending(Names("mod", p)) /\ Ascending(Names("pub use", p))
        /\ \A f, g \in Inputs :
               \A d \in 1..Len(mod_path(f)) :
                   /\ d <= Len(mod_path(g))
                   /\ NodeOf(f, d - 1) = NodeOf(g, d - 1)
                   /\ StrLess(mod_path(f)[d], mod_path(g)[d])
                   => BlockAt(NodeOf(f, d - 1), NodeOf(f, d)[d])
                          <= BlockAt(NodeOf(g, d - 1), NodeOf(g, d)[d])

\* C9 as amended: at every node the blocks are emitted in the order of the
\* keys of child_mod, which are the escaped segments, whatever order the
\* map iterates in; the declarations and uses in the order of their names.
C9_EscapedOrder ==
    pc = "done" =>
        \A p \in DOMAIN root :
            /\ Ascending(Names("mod", p))
            /\ Ascending(Names("pub use", p))
            /\ Ascending(Names("pub mod", p))
            /\ \A e \in Enumerations(ChildKeys(root, p)) :
                   SortStrings(e) = Names("pub mod", p)

\* text has been emitted where the block of an escaped segment comes before
\* the block of a segment that is smaller as a raw name
C9_Witness ==
    /\ pc = "done"
    /\ \E f, g \in Inputs :
           /\ NodeOf(f, 1) # NodeOf(g, 1)
           /\ StrLess(mod_path(f)[1], mod_path(g)[1])
           /\ StrLess(NodeOf(g, 1)[1], NodeOf(f, 1)[1])
           /\ Names("pub mod", <<>>) = <<NodeOf(g, 1)[1], NodeOf(f, 1)[1]>>

\* the directory the claim has file f moved to: one level per raw segment
\* but the last
ClaimedDir(f) == SubSeq(mod_path(f), 1, Len(mod_path(f)) - 1)

\* C10: after a successful build every non-ignored input file is gone from
\* its flat location and is at <src>/s1/.../s(k-1)/<internal name>.rs with
\* every directory on the way created; an ignored file is neither moved nor
\* in the tree.
C10_Relocated ==
    Built =>
        \A f \in src_files :
            IF f \in ignore_files
            THEN /\ At(<<>>, f) \in DOMAIN files
                 /\ \A p \in DOMAIN root :
                        internal_mod_name(f)
                            \notin Elems(root[p].priv_mod) \cup Elems(root[p].use_mod)
            ELSE /\ At(<<>>, f) \notin DOMAIN files
                 /\ At(ClaimedDir(f), internal_mod_name(f) \o <<".","r","s">>) \in DOMAIN files
                 /\ Prefixes(ClaimedDir(f)) \subseteq dirs

\* the file the loop is at is still at its flat location after the step:
\* create_dir_all or rename has failed for it
FileNotMoved ==
    /\ pc = "loop"
    /\ i < Len(file_paths)
    /\ At(<<>>, file_paths[i + 1]) \in DOMAIN files'

\* C11: when create_dir_all or rename fails for the file at position i + 1 of
\* the sorted file_paths, build returns an error at once and no tree: the
\* files before it are where the loop moved them, that file and the files
\* after it are at their flat locations, nothing is undone, nothing more
\* happens after the error, and no text is emitted.
C11_FailStop ==
    [][/\ pc = "error" => FALSE
       /\ FileNotMoved =>
              /\ pc' = "error"
              /\ files' = files
              /\ files' = Loop(FlatDir(src_files), SubSeq(file_paths, 1, i)).files
              /\ \A k \in (i + 1)..Len(file_paths) : At(<<>>, file_paths[k]) \in DOMAIN files'
              /\ out' = <<>>
              /\ UNCHANGED <<root, i, file_paths>>]_vars

\* build has failed at a file with files before it, already moved, and files
\* after it
C11_Witness ==
    /\ pc = "error"
    /\ i >= 1
    /\ i + 1 < Len(file_paths)
    /\ files # FlatDir(src_files).files
    /\ out = <<>>

=============================================================================
